---- MODULE Spec2Model ----
(***************************************************************************)
(* waybar-autohide: a daemon that polls the Hyprland compositor and        *)
(* toggles the visibility of the waybar process (src/main.py).             *)
(*                                                                         *)
(* The compositor (cursor, monitors, clients), the bar process and the     *)
(* configuration read from the environment are the daemon's surroundings;  *)
(* the daemon itself is main()'s loop, one action per external call.       *)
(***************************************************************************)
EXTENDS Integers, Sequences, FiniteSets, TLC

VARIABLES
    \* ---- configuration, read once by main() ----
    waybar_monitors,    \* the monitor allow-list, a sequence of monitor ids
    \* ---- the daemon ----
    pc,                 \* where main() is
    state,              \* main()'s state: WaybarState
    next_state,         \* main()'s next_state
    pos,                \* cursor_aproaches_bar's (x, y); <<>> while not read
    cursor_aproaches,   \* get_next_state's cursor_aproaches
    active_workspaces,  \* get_next_state's active_workspaces
    overlaps,           \* get_next_state's overlaps
    \* ---- the surroundings ----
    cursor,             \* hyprctl cursorpos
    monitors,           \* hyprctl -j monitors
    clients,            \* hyprctl -j clients
    waybar_running,     \* pgrep -x waybar succeeds
    hyprland_running,   \* hyprctl version succeeds
    bar_visible,        \* what the bar process actually shows
    \* ---- history ----
    ticks,              \* completed iterations of the while loop
    toggles,            \* calls of toggle_waybar_visibility
    changes,            \* iterations in which state was assigned a new value
    queried             \* some compositor state query has been made

vars == <<waybar_monitors, pc, state, next_state, pos, cursor_aproaches,
          active_workspaces, overlaps, cursor, monitors, clients,
          waybar_running, hyprland_running, bar_visible, ticks, toggles,
          changes, queried>>

daemon == <<pc, state, next_state, pos, cursor_aproaches, active_workspaces,
            overlaps>>

history == <<ticks, toggles, changes, queried>>

compositor == <<cursor, monitors, clients>>

-----------------------------------------------------------------------------
(* Bounds of the model *)

MaxTicks == 2

MaxClients == 2

-----------------------------------------------------------------------------
(* Program constants and types *)

BAR_HEIGHT == 50

HEIGHT_THRESHOLD == 20

VISIBLE == "1"

HIDDEN == "0"

WaybarState == {VISIBLE, HIDDEN}

HyprlandClient(mapped, hidden, fullscreen, at, size, workspace, monitor) ==
    [mapped |-> mapped, hidden |-> hidden, fullscreen |-> fullscreen,
     at |-> at, size |-> size, workspace |-> workspace, monitor |-> monitor]

Monitor(id, x, y, width, height, activeWorkspace) ==
    [id |-> id, x |-> x, y |-> y, width |-> width, height |-> height,
     activeWorkspace |-> activeWorkspace]

\* x in xs, for a Python list xs
InList(x, xs) == \E i \in 1..Len(xs) : xs[i] = x


-----------------------------------------------------------------------------
(* The pure parts of the program *)

\* get_current_workspace: .activeWorkspace.id of every monitor, in query order
get_current_workspace(mons) ==
    [i \in 1..Len(mons) |-> mons[i].activeWorkspace]

\* get_monitor_from_position with the far edges of a rectangle left out
RECURSIVE get_monitor_from_position_half_open(_, _, _)
get_monitor_from_position_half_open(mons, pos_x, pos_y) ==
    IF mons = <<>> THEN <<>>
    ELSE LET monitor == Head(mons)
         IN  IF pos_x < monitor.x \/ pos_x >= monitor.x + monitor.width
             THEN get_monitor_from_position_half_open(Tail(mons), pos_x, pos_y)
             ELSE IF pos_y < monitor.y \/ pos_y >= monitor.y + monitor.height
             THEN get_monitor_from_position_half_open(Tail(mons), pos_x, pos_y)
             ELSE <<monitor.id>>

\* get_monitor_from_position: <<id>> of the first monitor whose rectangle
\* holds the point, <<>> for None
RECURSIVE get_monitor_from_position(_, _, _)
get_monitor_from_position(mons, pos_x, pos_y) ==
    IF mons = <<>> THEN <<>>
    ELSE LET monitor == Head(mons)
             start_x == monitor.x
             end_x == monitor.x + monitor.width
             start_y == monitor.y
             end_y == monitor.y + monitor.height
         IN  IF pos_x < start_x \/ pos_x > end_x
             THEN get_monitor_from_position(Tail(mons), pos_x, pos_y)
             ELSE IF pos_y < start_y \/ pos_y > end_y
             THEN get_monitor_from_position(Tail(mons), pos_x, pos_y)
             ELSE <<monitor.id>>

\* overlaps_bar without the test of c.fullscreen
overlaps_bar_fullscreen_ignored(c, workspaces, mons) ==
    IF ~c.mapped THEN FALSE
    ELSE IF c.hidden THEN FALSE
    ELSE IF ~InList(c.monitor, IF mons # <<>> THEN mons ELSE <<c.monitor>>)
    THEN FALSE
    ELSE IF ~InList(c.workspace, workspaces) THEN FALSE
    ELSE c.at[2] < (BAR_HEIGHT + HEIGHT_THRESHOLD) /\ (c.at[2] + c.size[2]) > 0

\* overlaps_bar without the test of c.monitor
overlaps_bar_any_monitor(c, workspaces, mons) ==
    IF ~c.mapped THEN FALSE
    ELSE IF c.hidden THEN FALSE
    ELSE IF c.fullscreen # 0 THEN FALSE
    ELSE IF ~InList(c.workspace, workspaces) THEN FALSE
    ELSE c.at[2] < (BAR_HEIGHT + HEIGHT_THRESHOLD) /\ (c.at[2] + c.size[2]) > 0

\* overlaps_bar without the test of c.workspace.id
overlaps_bar_any_workspace(c, workspaces, mons) ==
    IF ~c.mapped THEN FALSE
    ELSE IF c.hidden THEN FALSE
    ELSE IF c.fullscreen # 0 THEN FALSE
    ELSE IF ~InList(c.monitor, IF mons # <<>> THEN mons ELSE <<c.monitor>>)
    THEN FALSE
    ELSE c.at[2] < (BAR_HEIGHT + HEIGHT_THRESHOLD) /\ (c.at[2] + c.size[2]) > 0

\* overlaps_bar with y <= in place of y <
overlaps_bar_inclusive(c, workspaces, mons) ==
    IF ~c.mapped THEN FALSE
    ELSE IF c.hidden THEN FALSE
    ELSE IF c.fullscreen # 0 THEN FALSE
    ELSE IF ~InList(c.monitor, IF mons # <<>> THEN mons ELSE <<c.monitor>>)
    THEN FALSE
    ELSE IF ~InList(c.workspace, workspaces) THEN FALSE
    ELSE c.at[2] <= (BAR_HEIGHT + HEIGHT_THRESHOLD) /\ (c.at[2] + c.size[2]) > 0

\* get_overlapping_clients.overlaps_bar; `monitors or [c.monitor]` is the
\* allow-list unless it is empty
overlaps_bar(c, workspaces, mons) ==
    IF ~c.mapped THEN FALSE
    ELSE IF c.hidden THEN FALSE
    ELSE IF c.fullscreen # 0 THEN FALSE
    ELSE IF ~InList(c.monitor, IF mons # <<>> THEN mons ELSE <<c.monitor>>)
    THEN FALSE
    ELSE IF ~InList(c.workspace, workspaces) THEN FALSE
    ELSE LET y == c.at[2]
             h == c.size[2]
         IN  y < (BAR_HEIGHT + HEIGHT_THRESHOLD) /\ (y + h) > 0

\* window_overlaps_bar with all() in place of any()
window_overlaps_bar_all(cs, workspaces, mons) ==
    /\ cs # <<>>
    /\ \A i \in 1..Len(cs) : overlaps_bar(cs[i], workspaces, mons)

\* window_overlaps_bar: any(get_overlapping_clients(...))
window_overlaps_bar(cs, workspaces, mons) ==
    \E i \in 1..Len(cs) : overlaps_bar(cs[i], workspaces, mons)

\* cursor_aproaches_bar with y < offset in place of y <= offset
cursor_aproaches_bar_strict(p, queried_monitors, mons, current_state) ==
    LET cursor_monitor == get_monitor_from_position(queried_monitors, p[1], p[2])
    IN  IF cursor_monitor = <<>>
           \/ ~InList(cursor_monitor[1],
                      IF mons # <<>> THEN mons ELSE cursor_monitor)
        THEN FALSE
        ELSE p[2] < (IF current_state = VISIBLE THEN BAR_HEIGHT ELSE 0)

\* cursor_aproaches_bar with the offset of the state the bar is not in
cursor_aproaches_bar_other_state(p, queried_monitors, mons, current_state) ==
    LET cursor_monitor == get_monitor_from_position(queried_monitors, p[1], p[2])
    IN  IF cursor_monitor = <<>>
           \/ ~InList(cursor_monitor[1],
                      IF mons # <<>> THEN mons ELSE cursor_monitor)
        THEN FALSE
        ELSE p[2] <= (IF current_state = VISIBLE THEN 0 ELSE BAR_HEIGHT)

\* cursor_aproaches_bar that does not return on cursor_monitor is None
cursor_aproaches_bar_none_passes(p, queried_monitors, mons, current_state) ==
    LET cursor_monitor == get_monitor_from_position(queried_monitors, p[1], p[2])
    IN  IF cursor_monitor # <<>>
           /\ ~InList(cursor_monitor[1],
                      IF mons # <<>> THEN mons ELSE cursor_monitor)
        THEN FALSE
        ELSE p[2] <= (IF current_state = VISIBLE THEN BAR_HEIGHT ELSE 0)

\* cursor_aproaches_bar without the test of the allow-list
cursor_aproaches_bar_any_monitor(p, queried_monitors, mons, current_state) ==
    LET cursor_monitor == get_monitor_from_position(queried_monitors, p[1], p[2])
    IN  IF cursor_monitor = <<>>
        THEN FALSE
        ELSE p[2] <= (IF current_state = VISIBLE THEN BAR_HEIGHT ELSE 0)

\* cursor_aproaches_bar, given the cursor position (x, y) and the monitors
\* that get_monitor_from_position queried
cursor_aproaches_bar(p, queried_monitors, mons, current_state) ==
    LET y == p[2]
        cursor_monitor == get_monitor_from_position(queried_monitors, p[1], p[2])
    IN  IF cursor_monitor = <<>>
           \/ ~InList(cursor_monitor[1],
                      IF mons # <<>> THEN mons ELSE cursor_monitor)
        THEN FALSE
        ELSE LET offset == IF current_state = VISIBLE THEN BAR_HEIGHT ELSE 0
             IN  y <= offset

\* get_next_state with the results of its last two branches swapped
get_next_state_swapped(current_state, cursor_aproaches_, overlaps_) ==
    IF cursor_aproaches_ THEN VISIBLE
    ELSE IF overlaps_ THEN VISIBLE
    ELSE HIDDEN

\* get_next_state that keeps the current state when nothing decides
get_next_state_keeps_state(current_state, cursor_aproaches_, overlaps_) ==
    IF cursor_aproaches_ THEN VISIBLE
    ELSE IF overlaps_ THEN HIDDEN
    ELSE current_state

\* get_next_state's result from its two predicates (lines 178-187);
\* current_state is only used for cursor_aproaches, and when that is true the
\* code returns before it evaluates overlaps
get_next_state(current_state, cursor_aproaches_, overlaps_) ==
    IF cursor_aproaches_ THEN VISIBLE
    ELSE IF overlaps_ THEN HIDDEN
    ELSE VISIBLE

\* a comparison that is always true
state_changed_always(next, current) == TRUE

\* line 212
state_changed(next, current) == next # current

\* line 215 left out: the toggle is called and the state is not assigned
assigned_state_kept(next, current, rc) == current

\* state is assigned only when pkill succeeded
assigned_state_if_ok(next, current, rc) == IF rc = 0 THEN next ELSE current

\* line 214: the return code of pkill (check=False) is not looked at
assigned_state(next, current, rc) == next

-----------------------------------------------------------------------------
(* The surroundings the daemon is run in *)

SeqsUpTo(S, n) == UNION {[1..k -> S] : k \in 0..n}

\* 1920x1080 monitors side by side; monitor 0 shows workspace 1 or 2,
\* monitor 1, when plugged, workspace 3
MonitorSetups ==
    { <<Monitor(0, 0, 0, 1920, 1080, 1)>>,
      <<Monitor(0, 0, 0, 1920, 1080, 1), Monitor(1, 1920, 0, 1920, 1080, 3)>>,
      <<Monitor(0, 0, 0, 1920, 1080, 2), Monitor(1, 1920, 0, 1920, 1080, 3)>> }

AllowLists == { <<>>, <<0>>, <<1>> }

Cursors == {0, 2500} \X {0, 1, 50, 51}

\* a window under the bar, one below it, a hidden one, one on monitor 1
Clients ==
    { HyprlandClient(TRUE, FALSE, 0, <<0, 10>>, <<800, 30>>, 1, 0),
      HyprlandClient(TRUE, FALSE, 0, <<0, 70>>, <<800, 10>>, 1, 0),
      HyprlandClient(TRUE, TRUE, 0, <<0, 10>>, <<800, 30>>, 1, 0),
      HyprlandClient(TRUE, FALSE, 0, <<1920, 10>>, <<800, 30>>, 3, 1) }

ClientLists == SeqsUpTo(Clients, MaxClients)

\* every combination of a window's flags, place, size, workspace and monitor
AnyClient ==
    { HyprlandClient(m, hd, f, <<x, y>>, <<w, h>>, ws, mon) :
        m \in BOOLEAN, hd \in BOOLEAN, f \in {0, 1, 2},
        x \in {0, 500}, y \in {-30, -10, 10, 69, 70},
        w \in {100, 800}, h \in {10, 30},
        ws \in {1, 2, 3}, mon \in {0, 1} }

RemoveAt(s, i) == [j \in 1..(Len(s) - 1) |-> IF j < i THEN s[j] ELSE s[j + 1]]

-----------------------------------------------------------------------------
(* main() *)

\* lines 191-200: the configuration is read, nothing has run yet
InitDaemon ==
    /\ pc = "is_waybar_running"
    /\ state \in WaybarState
    /\ next_state = state
    /\ pos = <<>>
    /\ cursor_aproaches = FALSE
    /\ active_workspaces = <<>>
    /\ overlaps = FALSE
    /\ ticks = 0
    /\ toggles = 0
    /\ changes = 0
    /\ queried = FALSE

\* the configured state is what the bar shows when the daemon starts
Init ==
    /\ InitDaemon
    /\ waybar_monitors \in AllowLists
    /\ cursor \in Cursors
    /\ monitors \in MonitorSetups
    /\ clients \in ClientLists
    /\ waybar_running \in BOOLEAN
    /\ hyprland_running \in BOOLEAN
    /\ bar_visible = (state = VISIBLE)

\* the daemon goes on without looking at what the check returned
PreflightHyprlandIgnored ==
    /\ pc = "is_hyprland_running"
    /\ pc' = "get_cursor_position"
    /\ UNCHANGED <<waybar_monitors, state, next_state, pos, cursor_aproaches,
                   active_workspaces, overlaps, compositor, waybar_running,
                   hyprland_running, bar_visible, history>>

\* lines 202-204
PreflightWaybar ==
    /\ pc = "is_waybar_running"
    /\ pc' = IF ~waybar_running THEN "exited" ELSE "is_hyprland_running"
    /\ UNCHANGED <<waybar_monitors, state, next_state, pos, cursor_aproaches,
                   active_workspaces, overlaps, compositor, waybar_running,
                   hyprland_running, bar_visible, history>>

\* lines 206-208
PreflightHyprland ==
    /\ pc = "is_hyprland_running"
    /\ pc' = IF ~hyprland_running THEN "exited" ELSE "get_cursor_position"
    /\ UNCHANGED <<waybar_monitors, state, next_state, pos, cursor_aproaches,
                   active_workspaces, overlaps, compositor, waybar_running,
                   hyprland_running, bar_visible, history>>

\* line 211 -> 176 -> 162: hyprctl cursorpos
GetCursorPosition ==
    /\ pc = "get_cursor_position"
    /\ ticks < MaxTicks
    /\ pos' = cursor
    /\ queried' = TRUE
    /\ pc' = "get_monitor_from_position"
    /\ UNCHANGED <<waybar_monitors, state, next_state, cursor_aproaches,
                   active_workspaces, overlaps, compositor, waybar_running,
                   hyprland_running, bar_visible, ticks, toggles, changes>>

\* lines 164-170 and 176-179: hyprctl -j monitors, the proximity predicate,
\* and get_next_state's early return
CursorAproachesBar ==
    /\ pc = "get_monitor_from_position"
    /\ LET result == cursor_aproaches_bar(pos, monitors, waybar_monitors, state)
       IN  /\ cursor_aproaches' = result
           /\ IF result
              THEN /\ next_state' = get_next_state(state, TRUE, FALSE)
                   /\ pc' = "compare"
              ELSE /\ next_state' = next_state
                   /\ pc' = "get_current_workspace"
    /\ pos' = <<>>
    /\ UNCHANGED <<waybar_monitors, state, active_workspaces, overlaps,
                   compositor, waybar_running, hyprland_running, bar_visible,
                   history>>

\* line 181: hyprctl monitors -j | jq
GetCurrentWorkspace ==
    /\ pc = "get_current_workspace"
    /\ active_workspaces' = get_current_workspace(monitors)
    /\ pc' = "get_clients"
    /\ UNCHANGED <<waybar_monitors, state, next_state, pos, cursor_aproaches,
                   overlaps, compositor, waybar_running, hyprland_running,
                   bar_visible, history>>

\* lines 182-187: hyprctl -j clients, the overlap predicate over the clients,
\* and get_next_state's result
WindowOverlapsBar ==
    /\ pc = "get_clients"
    /\ LET result == window_overlaps_bar(clients, active_workspaces, waybar_monitors)
       IN  /\ overlaps' = result
           /\ next_state' = get_next_state(state, cursor_aproaches, result)
    /\ active_workspaces' = <<>>
    /\ pc' = "compare"
    /\ UNCHANGED <<waybar_monitors, state, pos, cursor_aproaches, compositor,
                   waybar_running, hyprland_running, bar_visible, history>>

\* toggle_waybar_visibility (lines 80-81): pkill -USR1 with check=False; the
\* signal reaches the bar (rc 0) or it does not (rc 1)
toggle_waybar_visibility(rc) ==
    /\ bar_visible' = IF rc = 0 THEN ~bar_visible ELSE bar_visible
    /\ toggles' = toggles + 1

\* lines 212-216: the comparison, the toggle and the assignment; then the
\* iteration goes to sleep. rcs: the return codes pkill may give
CompareRc(rcs) ==
    /\ pc = "compare"
    /\ IF state_changed(next_state, state)
       THEN \E rc \in rcs :
                /\ toggle_waybar_visibility(rc)
                /\ state' = assigned_state(next_state, state, rc)
       ELSE UNCHANGED <<bar_visible, toggles, state>>
    /\ changes' = IF state' # state THEN changes + 1 ELSE changes
    /\ ticks' = ticks + 1
    /\ pc' = "sleep"
    /\ cursor_aproaches' = FALSE
    /\ overlaps' = FALSE
    /\ UNCHANGED <<waybar_monitors, next_state, pos, active_workspaces,
                   compositor, waybar_running, hyprland_running, queried>>

\* lines 212-216, where the signal may be lost
Compare == CompareRc({0, 1})

\* a loop that ends after its first sleep
SleepThenExit ==
    /\ pc = "sleep"
    /\ ticks < MaxTicks
    /\ pc' = "exited"
    /\ UNCHANGED <<waybar_monitors, state, next_state, pos, cursor_aproaches,
                   active_workspaces, overlaps, compositor, waybar_running,
                   hyprland_running, bar_visible, history>>

\* line 216 and back to line 210
Sleep ==
    /\ pc = "sleep"
    /\ ticks < MaxTicks
    /\ pc' = "get_cursor_position"
    /\ UNCHANGED <<waybar_monitors, state, next_state, pos, cursor_aproaches,
                   active_workspaces, overlaps, compositor, waybar_running,
                   hyprland_running, bar_visible, history>>

\* one iteration of the loop, after the preflight
Tick ==
    \/ GetCursorPosition
    \/ CursorAproachesBar
    \/ GetCurrentWorkspace
    \/ WindowOverlapsBar
    \/ Compare

Driver ==
    \/ PreflightWaybar
    \/ PreflightHyprland
    \/ Tick
    \/ Sleep

-----------------------------------------------------------------------------
(* The surroundings change while the daemon sleeps *)

MoveCursor ==
    /\ pc = "sleep"
    /\ ticks < MaxTicks
    /\ cursor' \in Cursors
    /\ UNCHANGED <<waybar_monitors, daemon, monitors, clients, waybar_running,
                   hyprland_running, bar_visible, history>>

OpenWindow ==
    /\ pc = "sleep"
    /\ ticks < MaxTicks
    /\ Len(clients) < MaxClients
    /\ \E c \in Clients : clients' = Append(clients, c)
    /\ UNCHANGED <<waybar_monitors, daemon, cursor, monitors, waybar_running,
                   hyprland_running, bar_visible, history>>

CloseWindow ==
    /\ pc = "sleep"
    /\ ticks < MaxTicks
    /\ \E i \in 1..Len(clients) : clients' = RemoveAt(clients, i)
    /\ UNCHANGED <<waybar_monitors, daemon, cursor, monitors, waybar_running,
                   hyprland_running, bar_visible, history>>

\* a monitor is plugged or unplugged, another workspace is shown
MonitorsChange ==
    /\ pc = "sleep"
    /\ ticks < MaxTicks
    /\ monitors' \in MonitorSetups
    /\ UNCHANGED <<waybar_monitors, daemon, cursor, clients, waybar_running,
                   hyprland_running, bar_visible, history>>

CompositorChange ==
    \/ MoveCursor
    \/ OpenWindow
    \/ CloseWindow
    \/ MonitorsChange

Next == Driver \/ CompositorChange

\* the daemon in surroundings that change between its iterations
Spec == Init /\ [][Next]_vars

-----------------------------------------------------------------------------
(* One iteration over any window *)

InitTick ==
    /\ InitDaemon
    /\ waybar_monitors \in AllowLists
    /\ cursor = <<0, 500>>
    /\ monitors \in MonitorSetups
    /\ clients \in SeqsUpTo(AnyClient, 1)
    /\ waybar_running = TRUE
    /\ hyprland_running = TRUE
    /\ bar_visible = (state = VISIBLE)

NextTick == PreflightWaybar \/ PreflightHyprland \/ Tick

\* the first iteration, with the cursor away from every bar and at most one
\* window, of any kind
SpecTick == InitTick /\ [][NextTick]_vars

-----------------------------------------------------------------------------
(* Nothing near the bar *)

\* no window overlaps the bar and the cursor is below it
Quiet(cur, mons, cs) ==
    /\ ~window_overlaps_bar(cs, get_current_workspace(mons), waybar_monitors)
    /\ cur[2] > BAR_HEIGHT

InitQuiet ==
    /\ Init
    /\ state = VISIBLE
    /\ Quiet(cursor, monitors, clients)

QuietChange == CompositorChange /\ Quiet(cursor', monitors', clients')

NextQuiet == Driver \/ QuietChange

\* the daemon started VISIBLE, with no window overlapping the bar and the
\* cursor far from it at any time
SpecQuiet == InitQuiet /\ [][NextQuiet]_vars

-----------------------------------------------------------------------------
(* What the claims are stated with *)

\* the monitors' active workspaces and the overlap of some window with the
\* bar, as the compositor stands
ActiveNow == get_current_workspace(monitors)

WindowOverlapsNow == window_overlaps_bar(clients, ActiveNow, waybar_monitors)

\* the allow-list admits monitor m
Allowed(m) == waybar_monitors = <<>> \/ InList(m, waybar_monitors)

\* the cursor is on a monitor the allow-list admits
CursorOnAllowedMonitor ==
    LET m == get_monitor_from_position(monitors, cursor[1], cursor[2])
    IN  m # <<>> /\ Allowed(m[1])

\* a client that is not mapped, or hidden, or fullscreen
Ineligible(c) == ~c.mapped \/ c.hidden \/ c.fullscreen # 0

\* mapped, not hidden, not fullscreen, on an allowed monitor and on an
\* active workspace
Eligible(c) ==
    /\ c.mapped /\ ~c.hidden /\ c.fullscreen = 0
    /\ Allowed(c.monitor)
    /\ InList(c.workspace, ActiveNow)

\* the vertical span of c lies in the band of the bar
InBand(c) == c.at[2] < 70 /\ c.at[2] + c.size[2] > 0

-----------------------------------------------------------------------------
(* C1 *)

\* C1: when get_next_state has decided, its result is VISIBLE if the cursor
\* approaches (also with a window overlapping), HIDDEN if the cursor does not
\* approach and a window overlaps, VISIBLE if neither; whatever the current
\* state is.
C1_Transition ==
    pc = "compare" =>
        /\ cursor_aproaches => next_state = VISIBLE
        /\ (~cursor_aproaches /\ WindowOverlapsNow) => next_state = HIDDEN
        /\ (~cursor_aproaches /\ ~WindowOverlapsNow) => next_state = VISIBLE

\* a hidden bar, a window overlapping and the cursor approaching: VISIBLE
C1_Witness ==
    /\ pc = "compare"
    /\ state = HIDDEN
    /\ cursor_aproaches
    /\ WindowOverlapsNow
    /\ next_state = VISIBLE

-----------------------------------------------------------------------------
(* C2 *)

\* C2: the toggle is called once in an iteration whose next state differs
\* from the state and not at all in any other step, and the number of toggle
\* calls is always the number of iterations that changed the state.
C2_ToggleOncePerChange ==
    /\ [](toggles = changes)
    /\ [][toggles' = IF pc = "compare" /\ next_state # state
                     THEN toggles + 1 ELSE toggles]_vars

\* two iterations, one of them changed the state and toggled
C2_Witness == ticks = 2 /\ toggles = 1 /\ changes = 1

-----------------------------------------------------------------------------
(* C3 *)

\* C3: a client that is not mapped, or hidden, or fullscreen never satisfies
\* the overlap predicate, wherever it is; when every client is of this kind
\* the iteration decides VISIBLE and leaves the state VISIBLE.
C3_IneligibleNeverOverlaps ==
    /\ \A i \in 1..Len(clients) :
           Ineligible(clients[i]) =>
               ~overlaps_bar(clients[i], ActiveNow, waybar_monitors)
    /\ (\A i \in 1..Len(clients) : Ineligible(clients[i])) =>
           /\ pc = "compare" => (~overlaps /\ next_state = VISIBLE)
           /\ pc = "sleep" => state = VISIBLE

\* a fullscreen window in the band of the bar, on an allowed monitor and an
\* active workspace: the hidden bar has been made visible
C3_Witness ==
    /\ pc = "sleep"
    /\ Len(clients) = 1
    /\ clients[1].fullscreen = 2
    /\ clients[1].mapped /\ ~clients[1].hidden
    /\ Allowed(clients[1].monitor)
    /\ InList(clients[1].workspace, ActiveNow)
    /\ InBand(clients[1])
    /\ state = VISIBLE
    /\ changes = 1

-----------------------------------------------------------------------------
(* C4 *)

\* C4: with a non-empty allow-list a client on a monitor outside it does not
\* overlap, even in the band of the bar; with an empty allow-list a client
\* that is mapped, not hidden, not fullscreen, on an active workspace and in
\* the band overlaps on whatever monitor it is.
C4_MonitorFilter ==
    pc = "compare" =>
        \A i \in 1..Len(clients) :
            LET c == clients[i]
            IN  /\ (waybar_monitors # <<>> /\ ~InList(c.monitor, waybar_monitors))
                       => ~overlaps
                /\ (/\ waybar_monitors = <<>>
                    /\ c.mapped /\ ~c.hidden /\ c.fullscreen = 0
                    /\ InList(c.workspace, ActiveNow)
                    /\ InBand(c))
                       => overlaps

\* the allow-list is [0]; a window on monitor 1, in the band and on the
\* workspace monitor 1 shows, does not overlap
C4_Witness ==
    /\ pc = "compare"
    /\ waybar_monitors = <<0>>
    /\ Len(clients) = 1
    /\ clients[1].monitor = 1
    /\ clients[1].mapped /\ ~clients[1].hidden /\ clients[1].fullscreen = 0
    /\ InList(clients[1].workspace, ActiveNow)
    /\ InBand(clients[1])
    /\ ~overlaps

-----------------------------------------------------------------------------
(* C5 *)

\* C5: for a client that is mapped, not hidden, not fullscreen, on an allowed
\* monitor and an active workspace, the overlap predicate is true exactly
\* when y < barHeight+threshold and y+h > 0, whatever x and w are; y = 70
\* with h = 10 does not overlap, y = 69 does.
C5_VerticalBand ==
    pc = "compare" =>
        \A i \in 1..Len(clients) :
            LET c == clients[i]
                y == c.at[2]
                h == c.size[2]
            IN  Eligible(c) =>
                    /\ overlaps <=> (y < BAR_HEIGHT + HEIGHT_THRESHOLD /\ y + h > 0)
                    /\ (y = 70 /\ h = 10) => ~overlaps
                    /\ (y = 69 /\ h > 0) => overlaps

\* an eligible window at y = 69 overlaps
C5_Witness ==
    /\ pc = "compare"
    /\ Len(clients) = 1
    /\ Eligible(clients[1])
    /\ clients[1].at[2] = 69
    /\ overlaps

-----------------------------------------------------------------------------
(* C6 *)

\* C6: for a cursor on an allowed monitor the proximity predicate is true
\* exactly when cursor.y <= barHeight if the state is VISIBLE and when
\* cursor.y <= 0 if it is HIDDEN: y=0/HIDDEN true, y=1/HIDDEN false,
\* y=50/VISIBLE true, y=51/VISIBLE false.
C6_CursorProximity ==
    (pc \in {"get_current_workspace", "get_clients", "compare"}
     /\ CursorOnAllowedMonitor) =>
        LET y == cursor[2]
        IN  /\ cursor_aproaches <=> y <= (IF state = VISIBLE THEN BAR_HEIGHT ELSE 0)
            /\ (state = HIDDEN /\ y = 0) => cursor_aproaches
            /\ (state = HIDDEN /\ y = 1) => ~cursor_aproaches
            /\ (state = VISIBLE /\ y = 50) => cursor_aproaches
            /\ (state = VISIBLE /\ y = 51) => ~cursor_aproaches

\* the bar is visible and the cursor at y = 50 approaches it
C6_Witness ==
    /\ pc = "compare"
    /\ CursorOnAllowedMonitor
    /\ state = VISIBLE
    /\ cursor[2] = 50
    /\ cursor_aproaches

-----------------------------------------------------------------------------
(* C7 *)

\* C7: started VISIBLE, with no window overlapping the bar and the cursor far
\* from it in every iteration, the state is VISIBLE and the toggle has not
\* been called, after any number of iterations.
C7_QuietStaysVisible == state = VISIBLE /\ toggles = 0

\* every iteration of the run is over, with a window open
C7_Witness == ticks = MaxTicks /\ clients # <<>> /\ pc = "sleep"

-----------------------------------------------------------------------------
(* C8 *)

\* a mapped, non-fullscreen client with y=10 and h=30 on an allowed monitor
\* and an active workspace
C8_Client(c) ==
    /\ c.mapped /\ c.fullscreen = 0
    /\ c.at[2] = 10 /\ c.size[2] = 30
    /\ Allowed(c.monitor)
    /\ InList(c.workspace, ActiveNow)

\* C8 as stated: from state VISIBLE, a snapshot with such a client makes the
\* iteration call the toggle once and set the state to HIDDEN.
C8_Original ==
    [][(/\ pc = "compare"
        /\ state = VISIBLE
        /\ \E i \in 1..Len(clients) : C8_Client(clients[i]))
           => (state' = HIDDEN /\ toggles' = toggles + 1)]_vars

\* C8, amended: from state VISIBLE, a snapshot with such a client that is
\* also not hidden, taken while the cursor does not approach the bar, makes
\* the iteration call the toggle once and set the state to HIDDEN.
C8_OverlapHides ==
    [][(/\ pc = "compare"
        /\ state = VISIBLE
        /\ ~cursor_aproaches
        /\ \E i \in 1..Len(clients) : C8_Client(clients[i]) /\ ~clients[i].hidden)
           => (state' = HIDDEN /\ toggles' = toggles + 1)]_vars

\* the first iteration has hidden the bar over such a window
C8_Witness ==
    /\ pc = "sleep"
    /\ ticks = 1
    /\ toggles = 1
    /\ state = HIDDEN
    /\ \E i \in 1..Len(clients) : C8_Client(clients[i]) /\ ~clients[i].hidden

-----------------------------------------------------------------------------
(* C9 *)

\* C9: when the bar process is not running or the compositor is not
\* reachable, the daemon never enters the loop: no iteration, no compositor
\* query, no toggle.
C9_PreflightExits ==
    (~waybar_running \/ ~hyprland_running) =>
        /\ pc \in {"is_waybar_running", "is_hyprland_running", "exited"}
        /\ ticks = 0
        /\ ~queried
        /\ toggles = 0

\* the bar runs, the compositor does not: the daemon has exited
C9_Witness == pc = "exited" /\ waybar_running /\ ~hyprland_running

-----------------------------------------------------------------------------
(* C10 *)

\* C10: whenever the next state differs from the state, the iteration sets
\* the state to the next state and goes to sleep, whether the toggle
\* succeeded or not.
C10_ToggleFailureSwallowed ==
    [][(pc = "compare" /\ next_state # state)
           => (state' = next_state /\ pc' = "sleep" /\ ticks' = ticks + 1)]_vars

\* the one toggle sent so far did not reach the bar, and the next iteration
\* has begun
C10_Witness ==
    /\ pc = "get_monitor_from_position"
    /\ ticks = 1
    /\ toggles = 1
    /\ bar_visible # (state = VISIBLE)

-----------------------------------------------------------------------------
(* C11 *)

\* the bar shows what the daemon has decided
BarAgrees == bar_visible = (state = VISIBLE)

\* C11 as stated: when the one toggle sent so far, in the first iteration,
\* was lost (the bar did not change, the daemon's state did), the following
\* iteration leaves the bar showing what the daemon has decided.
C11_Original ==
    [][(pc = "compare" /\ ticks = 1 /\ toggles = 1 /\ ~BarAgrees)
           => BarAgrees']_vars

-----------------------------------------------------------------------------
(* C12 *)

\* the rectangle of monitor m holds the point p, its edges included
Contains(m, p) ==
    /\ m.x <= p[1] /\ p[1] <= m.x + m.width
    /\ m.y <= p[2] /\ p[2] <= m.y + m.height

\* the proximity predicate of the iteration has been evaluated
ProximityKnown == pc \in {"get_current_workspace", "get_clients", "compare"}

\* C12: when no monitor rectangle contains the cursor, the proximity
\* predicate is false for every cursor y and every state, and the iteration
\* goes on to decide from the windows alone: HIDDEN if one overlaps, else
\* VISIBLE.
C12_NoMonitorUnderCursor ==
    (ProximityKnown /\ \A i \in 1..Len(monitors) : ~Contains(monitors[i], cursor)) =>
        /\ ~cursor_aproaches
        /\ pc = "compare" =>
               next_state = IF WindowOverlapsNow THEN HIDDEN ELSE VISIBLE

\* the cursor at y = 0 beside the only monitor, a window overlapping: the
\* hidden bar stays hidden
C12_Witness ==
    /\ pc = "compare"
    /\ \A i \in 1..Len(monitors) : ~Contains(monitors[i], cursor)
    /\ cursor[2] = 0
    /\ state = HIDDEN
    /\ WindowOverlapsNow
    /\ next_state = HIDDEN

-----------------------------------------------------------------------------
(* C13 *)

\* the cursor is on a monitor that a non-empty allow-list leaves out
CursorOnExcludedMonitor ==
    LET m == get_monitor_from_position(monitors, cursor[1], cursor[2])
    IN  m # <<>> /\ waybar_monitors # <<>> /\ ~InList(m[1], waybar_monitors)

\* C13: when the allow-list is non-empty and the cursor's monitor is not in
\* it, the proximity predicate is false for every cursor y and every state,
\* so a window overlapping the bar hides it even with the cursor at the top
\* edge of the excluded monitor.
C13_ExcludedMonitorCursor ==
    (ProximityKnown /\ CursorOnExcludedMonitor) =>
        /\ ~cursor_aproaches
        /\ (pc = "compare" /\ WindowOverlapsNow) => next_state = HIDDEN

\* the allow-list is [0], the cursor at the top edge of monitor 1, a window
\* under the bar of monitor 0: the visible bar is to be hidden
C13_Witness ==
    /\ pc = "compare"
    /\ waybar_monitors = <<0>>
    /\ cursor = <<2500, 0>>
    /\ CursorOnExcludedMonitor
    /\ WindowOverlapsNow
    /\ state = VISIBLE
    /\ next_state = HIDDEN

-----------------------------------------------------------------------------
(* C14 *)

\* next(s, cursorApproaches, windowOverlaps) over the compositor as it
\* stands, with cursorApproaches computed for the state s
Decision(s) ==
    LET cursorApproaches ==
            /\ CursorOnAllowedMonitor
            /\ cursor[2] <= (IF s = VISIBLE THEN BAR_HEIGHT ELSE 0)
    IN  IF cursorApproaches THEN VISIBLE
        ELSE IF WindowOverlapsNow THEN HIDDEN
        ELSE VISIBLE

\* C14: the step that ends an iteration leaves the state equal to
\* next(s, cursorApproaches, windowOverlaps), s being the state the
\* iteration began with and cursorApproaches computed for s; no other step
\* changes the state, so it changes at most once per iteration.
C14_CommitOnly ==
    [][/\ pc = "compare" => state' = Decision(state)
       /\ pc # "compare" => state' = state
       /\ state' # state => ticks' = ticks + 1]_vars

\* a hidden bar, a window overlapping, the cursor at y = 50 on an allowed
\* monitor: the iteration has left the bar hidden, where the offset of the
\* VISIBLE state would have shown it
C14_Witness ==
    /\ pc = "sleep"
    /\ ticks = 1
    /\ toggles = 0
    /\ state = HIDDEN
    /\ CursorOnAllowedMonitor
    /\ cursor[2] = 50
    /\ WindowOverlapsNow

-----------------------------------------------------------------------------
(* One iteration over any cursor and any order of the monitors *)

\* the monitors side by side, in either order of the query's answer
CursorSetups ==
    MonitorSetups \cup
    { <<Monitor(1, 1920, 0, 1920, 1080, 3), Monitor(0, 0, 0, 1920, 1080, 1)>> }

\* inside a monitor, on the edge both share, on the outer edges, outside
AnyCursor == {0, 1920, 2500, 3840, 3841} \X {0, 1, 50, 51, 1080, 1081}

InitCursor ==
    /\ InitDaemon
    /\ waybar_monitors \in AllowLists
    /\ cursor \in AnyCursor
    /\ monitors \in CursorSetups
    /\ clients \in SeqsUpTo({HyprlandClient(TRUE, FALSE, 0, <<0, 10>>, <<800, 30>>, 1, 0)}, 1)
    /\ waybar_running = TRUE
    /\ hyprland_running = TRUE
    /\ bar_visible = (state = VISIBLE)

\* the first iteration, for a cursor anywhere
SpecCursor == InitCursor /\ [][NextTick]_vars

-----------------------------------------------------------------------------
(* C15 *)

\* the monitors whose rectangle holds the cursor, by their place in the
\* query's answer
Containing == {i \in 1..Len(monitors) : Contains(monitors[i], cursor)}

\* <<id>> of the first of them, <<>> when there is none
FirstContaining ==
    IF Containing = {} THEN <<>>
    ELSE <<monitors[CHOOSE i \in Containing : \A j \in Containing : i <= j].id>>

\* C15: the cursor's monitor is the first monitor in query order whose
\* rectangle contains the point, both edges included, and the proximity
\* predicate is decided for that monitor: on the edge two monitors share, the
\* one listed first counts, and when it is outside the allow-list proximity
\* is false although the second is allowed.
C15_FirstMonitorWins ==
    /\ get_monitor_from_position(monitors, cursor[1], cursor[2]) = FirstContaining
    /\ ProximityKnown =>
           /\ cursor_aproaches <=>
                  /\ FirstContaining # <<>>
                  /\ Allowed(FirstContaining[1])
                  /\ cursor[2] <= (IF state = VISIBLE THEN BAR_HEIGHT ELSE 0)
           /\ (/\ Cardinality(Containing) = 2
               /\ ~Allowed(FirstContaining[1])
               /\ \E i \in Containing : Allowed(monitors[i].id))
                  => ~cursor_aproaches

\* the cursor at the top of the edge monitors 0 and 1 share, monitor 0
\* listed first, the allow-list [1]: no proximity
C15_Witness ==
    /\ ProximityKnown
    /\ cursor = <<1920, 0>>
    /\ Cardinality(Containing) = 2
    /\ monitors[1].id = 0
    /\ waybar_monitors = <<1>>
    /\ ~cursor_aproaches

-----------------------------------------------------------------------------
(* One iteration over any window the compositor can report *)

\* a window is on the monitor its workspace belongs to: workspaces 1 and 2
\* are monitor 0's, workspace 3 is monitor 1's (MonitorSetups)
PlacedClient ==
    {c \in AnyClient : c.monitor = (IF c.workspace = 3 THEN 1 ELSE 0)}

InitPlaced ==
    /\ InitDaemon
    /\ waybar_monitors \in AllowLists
    /\ cursor = <<0, 500>>
    /\ monitors \in MonitorSetups
    /\ clients \in SeqsUpTo(PlacedClient, 1)
    /\ waybar_running = TRUE
    /\ hyprland_running = TRUE
    /\ bar_visible = (state = VISIBLE)

\* the first iteration, with the cursor away from every bar and at most one
\* window, of any kind, on the monitor of its workspace
SpecPlaced == InitPlaced /\ [][NextTick]_vars

-----------------------------------------------------------------------------
(* C16 *)

\* workspace ws is the active workspace of a monitor the allow-list admits
ActiveOnAllowedMonitor(ws) ==
    \E i \in 1..Len(monitors) :
        monitors[i].activeWorkspace = ws /\ Allowed(monitors[i].id)

-----------------------------------------------------------------------------
(* The surroundings change between the queries of an iteration *)

\* the daemon is in its loop
InLoop == pc \notin {"is_waybar_running", "is_hyprland_running", "exited"}

MoveCursorAnytime ==
    /\ InLoop
    /\ ticks < MaxTicks
    /\ cursor' \in Cursors
    /\ UNCHANGED <<waybar_monitors, daemon, monitors, clients, waybar_running,
                   hyprland_running, bar_visible, history>>

OpenWindowAnytime ==
    /\ InLoop
    /\ ticks < MaxTicks
    /\ Len(clients) < MaxClients
    /\ \E c \in Clients : clients' = Append(clients, c)
    /\ UNCHANGED <<waybar_monitors, daemon, cursor, monitors, waybar_running,
                   hyprland_running, bar_visible, history>>

CloseWindowAnytime ==
    /\ InLoop
    /\ ticks < MaxTicks
    /\ \E i \in 1..Len(clients) : clients' = RemoveAt(clients, i)
    /\ UNCHANGED <<waybar_monitors, daemon, cursor, clients, monitors,
                   waybar_running, hyprland_running, bar_visible, history>>

MonitorsChangeAnytime ==
    /\ InLoop
    /\ ticks < MaxTicks
    /\ monitors' \in MonitorSetups
    /\ UNCHANGED <<waybar_monitors, daemon, cursor, clients, waybar_running,
                   hyprland_running, bar_visible, history>>

\* for the compositor as given, the transition yields VISIBLE from either
\* state
ShowsBar(cur, mons, cs) ==
    \A s \in WaybarState :
        get_next_state(s,
                       cursor_aproaches_bar(cur, mons, waybar_monitors, s),
                       window_overlaps_bar(cs, get_current_workspace(mons),
                                           waybar_monitors)) = VISIBLE

InitRace ==
    /\ Init
    /\ state = VISIBLE
    /\ ShowsBar(cursor, monitors, clients)

RaceChange ==
    /\ \/ MoveCursorAnytime
       \/ OpenWindowAnytime
       \/ CloseWindowAnytime
       \/ MonitorsChangeAnytime
    /\ ShowsBar(cursor', monitors', clients')

NextRace == Driver \/ RaceChange

\* the daemon started VISIBLE in surroundings that change at any time, one
\* thing at a time, and in which the transition yields VISIBLE at every
\* instant
SpecRace == InitRace /\ [][NextRace]_vars

-----------------------------------------------------------------------------
(* C17 *)

\* C17 as stated: the decision of an iteration is the transition applied to
\* the compositor at one instant of the iteration. Where the transition
\* yields VISIBLE at every instant, every decision is VISIBLE and the toggle
\* is never called.
C17_Original ==
    /\ pc = "compare" => next_state = VISIBLE
    /\ state = VISIBLE
    /\ toggles = 0

-----------------------------------------------------------------------------
(* C18 *)

\* the daemon in surroundings that stay as they were at its start
SpecStill == Init /\ [][Driver]_vars

\* the cursor is in the band that proximity counts for a VISIBLE bar only
CursorInBand == 0 < cursor[2] /\ cursor[2] <= BAR_HEIGHT

\* C18 as stated: while the compositor stays the same, every iteration after
\* the first decides the state it already has, at most one toggle is called,
\* and with a window overlapping and the cursor at 0 < y <= BAR_HEIGHT the
\* state never changes and no toggle is called.
C18_Original ==
    /\ (ticks >= 1 /\ pc = "compare") => next_state = state
    /\ toggles <= 1
    /\ changes <= 1
    /\ (WindowOverlapsNow /\ CursorInBand) => (toggles = 0 /\ changes = 0)

\* C18: while the compositor stays the same, every iteration after the first
\* decides the state it already has, at most one toggle is called, and with
\* a window overlapping and the cursor at 0 < y <= BAR_HEIGHT on a monitor the
\* allow-list admits the state never changes and no toggle is called.
C18_StableAfterFirstTick ==
    /\ (ticks >= 1 /\ pc = "compare") => next_state = state
    /\ toggles <= 1
    /\ changes <= 1
    /\ (WindowOverlapsNow /\ CursorInBand /\ CursorOnAllowedMonitor)
           => (toggles = 0 /\ changes = 0)

C18_Witness ==
    /\ ticks >= 2
    /\ WindowOverlapsNow
    /\ CursorInBand
    /\ CursorOnAllowedMonitor
    /\ state = HIDDEN
    /\ waybar_monitors # <<>>

-----------------------------------------------------------------------------
(* C19 *)

\* the bar shows anything when the daemon starts, whatever state is
\* configured
InitDelivered ==
    /\ InitDaemon
    /\ waybar_monitors \in AllowLists
    /\ cursor \in Cursors
    /\ monitors \in MonitorSetups
    /\ clients \in ClientLists
    /\ waybar_running = TRUE
    /\ hyprland_running = TRUE
    /\ bar_visible \in BOOLEAN

\* lines 212-216, where pkill delivers every signal
CompareDelivered == CompareRc({0})

NextDelivered ==
    \/ PreflightWaybar
    \/ PreflightHyprland
    \/ GetCursorPosition
    \/ CursorAproachesBar
    \/ GetCurrentWorkspace
    \/ WindowOverlapsBar
    \/ CompareDelivered
    \/ Sleep
    \/ CompositorChange

\* the daemon where every toggle reaches the bar
SpecDelivered == InitDelivered /\ [][NextDelivered]_vars

\* C19: where every toggle is delivered, no step changes whether the bar
\* shows what the state says: they agree for the whole run if they agreed at
\* the start and differ for the whole run if they differed; and the state
\* changes in exactly the steps that call the toggle.
C19_DeliveredKeepsAgreement ==
    [][/\ BarAgrees' <=> BarAgrees
       /\ (toggles' # toggles) <=> (state' # state)]_vars

C19_Witness ==
    /\ toggles >= 2
    /\ pc = "sleep"
    /\ ~BarAgrees

-----------------------------------------------------------------------------
(* C20 *)

\* the daemon starts with no window open and monitor 0 in its allow-list
InitLive ==
    /\ Init
    /\ waybar_monitors = <<0>>
    /\ clients = <<>>

\* every query, the toggle and the sleep return: the daemon always takes its
\* next step
SpecLive == InitLive /\ [][Next]_vars /\ WF_vars(Driver)

\* C20: no step leaves the loop once the daemon is in it, and every
\* iteration up to the bound on ticks is followed by the sleep and by one
\* more iteration, whatever the compositor does in between.
C20_LoopNeverEnds ==
    /\ [][InLoop => InLoop']_vars
    /\ \A k \in 0..(MaxTicks - 1) :
           (InLoop /\ ticks = k) ~> (InLoop /\ ticks = k + 1)

C20_Witness ==
    /\ InLoop
    /\ ticks >= 2
    /\ pc = "sleep"
    /\ queried

====
